---- MODULE Spec2Model ----
(***************************************************************************)
(* Model of the Whale audio encoder (modeling_whale.py).                   *)
(*                                                                         *)
(* Tensors are modelled by their shape and by a symbolic term naming the   *)
(* computation that produced them: the learned submodules (linear layers,  *)
(* layer norms, convolutions, softmax attention) are uninterpreted         *)
(* function symbols, while shapes, slices, control flow, the submodule     *)
(* call order and the raised exceptions are computed as the code computes  *)
(* them.                                                                   *)
(***************************************************************************)
EXTENDS Integers, Sequences, FiniteSets, TLC

VARIABLES config,   \* the WhaleConfig the modules were constructed from
          attn,     \* result of WhaleAttention.__init__(config)
          call,     \* the last call made: operation name and arguments
          ret       \* what that call returned or raised

vars == <<config, attn, call, ret>>

\* ---- program constants --------------------------------------------------
has_flash_attn == FALSE
kernel_size == 3
stride == 2

\* ---- bounds of the model ------------------------------------------------
MaxHidden == 3      \* config.hidden_size ranges over 1..MaxHidden
MaxHeads == 2       \* config.num_attention_heads ranges over 1..MaxHeads
MaxLen == 2         \* config.max_position_embeddings ranges over 1..MaxLen
MaxLayers == 2      \* config.num_hidden_layers ranges over 0..MaxLayers
MaxTime == 11       \* time length of raw features ranges over MinTime..MaxTime
MaxFeat == 11       \* feature dimension of raw features: MinFeat..MaxFeat
MaxSeq == 3         \* sequence length given to the encoder and its parts
MaxOffset == 1      \* positional offset ranges over 0..MaxOffset
MaxBatch == 1       \* batch size ranges over 1..MaxBatch

\* the shortest inputs tried: one less than the 7 frames (features) that two
\* unpadded kernel-3 stride-2 convolutions need
MinTime == 2 * kernel_size
MinFeat == 2 * kernel_size

\* time lengths of the raw features handed to the whole model
ModelTimes == {MinTime, MinTime + 1, MaxTime}

\* python's None, an Optional[bool] that is set, and a local name that was
\* never assigned
None == [none |-> TRUE]
Some(v) == [none |-> FALSE, v |-> v]
Unbound == [unbound |-> TRUE]

\* an assignment: the right-hand side is evaluated once and the name then
\* stands for its value
Let(v, Body(_)) == CHOOSE r \in {Body(x) : x \in {v}} : TRUE

Min(a, b) == IF a < b THEN a ELSE b

\* ---- python / torch primitives -------------------------------------------

Slice1Step2(s) == [k \in 1..(Len(s) \div 2) |-> s[2 * k]]

\* s[2::2] on a python sequence
Slice2Step2(s) ==
    [k \in 1..(IF Len(s) <= 2 THEN 0 ELSE (Len(s) - 1) \div 2) |-> s[2 * k + 1]]

\* s[start:stop] on a python sequence: bounds are clamped, never an error
PySlice(s, start, stop) ==
    LET hi == Min(stop, Len(s))
    IN  [k \in 1..(IF hi > start THEN hi - start ELSE 0) |-> s[start + k]]

\* output size of nn.Conv2d(kernel_size=3, stride=2) along one axis, no padding
\* (0 stands for the RuntimeError torch raises when the kernel exceeds the input)
ConvOut(n) == IF n < kernel_size THEN 0 ELSE (n - kernel_size) \div stride + 1

\* torch broadcasting of two shapes aligned at the trailing dimensions;
\* <<-1>> stands for the RuntimeError of two sizes that do not match
Max(a, b) == IF a < b THEN b ELSE a

PadLeft(s, n) == [i \in 1..n |-> IF i <= n - Len(s) THEN 1 ELSE s[i - (n - Len(s))]]

BroadcastShape(a, b) ==
    LET n  == Max(Len(a), Len(b))
        pa == PadLeft(a, n)
        pb == PadLeft(b, n)
    IN  IF \A i \in 1..n : pa[i] = pb[i] \/ pa[i] = 1 \/ pb[i] = 1
        THEN [i \in 1..n |-> IF pa[i] = 1 THEN pb[i] ELSE pa[i]]
        ELSE <<-1>>

\* shape of torch.matmul(a, b) for operands of rank >= 2
MatmulShape(a, b) ==
    LET batch == BroadcastShape(SubSeq(a, 1, Len(a) - 2), SubSeq(b, 1, Len(b) - 2))
    IN  IF a[Len(a)] # b[Len(b) - 1] \/ batch = <<-1>>
        THEN <<-1>>
        ELSE batch \o <<a[Len(a) - 1], b[Len(b)]>>

RECURSIVE Numel(_)
Numel(s) == IF Len(s) = 0 THEN 1 ELSE s[1] * Numel(Tail(s))

\* a tensor: its shape and the symbolic term of its value
Tensor(shape, term) == [shape |-> shape, term |-> term]
In(name) == <<"in", name>>

\* a mask tensor: its shape and, along axis 1, the source index of each entry
Mask(shape) ==
    [shape |-> shape,
     axis1 |-> IF Len(shape) >= 2 THEN [i \in 1..shape[2] |-> i - 1] ELSE <<>>]

\* ---- WhaleConv2dSubsampling4 ---------------------------------------------

Subsampling_intermediate_size_quarter(cfg) ==
    cfg.hidden_size * (cfg.input_dim \div 4)

Subsampling_intermediate_size(cfg) ==
    cfg.hidden_size * (((cfg.input_dim - 1) \div 2 - 1) \div 2)

\* x_mask[:, 2::2][:, 2::2]: both slices act on axis 1
MaskSubsample(m) ==
    LET a == Slice2Step2(Slice2Step2(m.axis1))
    IN  [shape |-> [m.shape EXCEPT ![2] = Len(a)], axis1 |-> a]

Subsampling_forward_quarter(cfg, x, x_mask) ==
    LET ok == Len(x.shape) = 3 /\ cfg.num_channels = 1
        f  == IF ok THEN ConvOut(ConvOut(x.shape[3])) ELSE 0
    IN  IF ~ok \/ f = 0 \/ x.shape[2] \div 4 = 0
        THEN [raised |-> "RuntimeError", where |-> "conv_in"]
        ELSE IF cfg.hidden_size * f # Subsampling_intermediate_size(cfg)
        THEN [raised |-> "RuntimeError", where |-> "out"]
        ELSE IF x_mask = None
        THEN [raised |-> "TypeError", where |-> "x_mask"]
        ELSE IF Len(x_mask.shape) < 2
        THEN [raised |-> "IndexError", where |-> "x_mask"]
        ELSE [raised |-> "none",
              x      |-> Tensor(<<x.shape[1], x.shape[2] \div 4, cfg.hidden_size>>,
                                <<"out", <<"conv_in", x.term>>>>),
              mask   |-> MaskSubsample(x_mask)]

Subsampling_forward(cfg, x, x_mask) ==
    LET t1 == IF Len(x.shape) = 3 THEN ConvOut(x.shape[2]) ELSE 0
        f1 == IF Len(x.shape) = 3 THEN ConvOut(x.shape[3]) ELSE 0
        t  == ConvOut(t1)
        f  == ConvOut(f1)
        c  == cfg.hidden_size
    IN  IF Len(x.shape) # 3 \/ cfg.num_channels # 1 \/ t1 = 0 \/ f1 = 0 \/ t = 0 \/ f = 0
        THEN [raised |-> "RuntimeError", where |-> "conv_in"]
        ELSE IF c * f # Subsampling_intermediate_size(cfg)
        THEN [raised |-> "RuntimeError", where |-> "out"]
        ELSE IF x_mask = None
        THEN [raised |-> "TypeError", where |-> "x_mask"]
        ELSE IF Len(x_mask.shape) < 2
        THEN [raised |-> "IndexError", where |-> "x_mask"]
        ELSE [raised |-> "none",
              x      |-> Tensor(<<x.shape[1], t, cfg.hidden_size>>,
                                <<"out", <<"conv_in", x.term>>>>),
              mask   |-> MaskSubsample(x_mask)]

\* ---- WhalePositionalEncoding / RelPositionalEncoding ---------------------

\* self.pe: one row per position 0..max_len-1, shape (1, max_len, d_model)
PeTable(cfg) == [i \in 1..cfg.max_position_embeddings |-> i - 1]

PeSlice(cfg, offset, size) ==
    LET rows == PySlice(PeTable(cfg), offset, offset + size)
    IN  [shape |-> <<1, Len(rows), cfg.hidden_size>>,
         rows  |-> rows,
         term  |-> <<"dropout", <<"pe", rows>>>>]

PositionalEncoding_forward(cfg, x, offset) ==
    IF ~(offset + x.shape[2] < cfg.max_position_embeddings)
    THEN [raised |-> "AssertionError"]
    ELSE LET pos_emb == PeSlice(cfg, offset, x.shape[2])
         IN  [raised  |-> "none",
              x       |-> Tensor(x.shape,
                                 <<"dropout", <<"add", <<"xscale", x.term>>,
                                                <<"pe", pos_emb.rows>>>>>>),
              pos_emb |-> pos_emb]

position_encoding(cfg, offset, size) ==
    IF ~(offset + size < cfg.max_position_embeddings)
    THEN [raised |-> "AssertionError"]
    ELSE [raised |-> "none", pos_emb |-> PeSlice(cfg, offset, size)]

RelPositionalEncoding_forward(cfg, x, offset) ==
    [raised  |-> "none",
     x       |-> Tensor(x.shape, <<"dropout", <<"xscale", x.term>>>>),
     pos_emb |-> PeSlice(cfg, offset, x.shape[2])]

\* ---- WhaleAudioEmbeddings ------------------------------------------------

Embeddings_forward(cfg, input_features) ==
    LET hidden_states == Tensor(input_features.shape,
                                <<"embedding", input_features.term>>)
    IN  Let(RelPositionalEncoding_forward(cfg, hidden_states, 0), LAMBDA r :
        IF r.raised # "none" THEN r
        ELSE [raised |-> "none", hidden_states |-> r.x, pos_embeds |-> r.pos_emb])

\* ---- WhaleAttention ------------------------------------------------------

WhaleAttention_init_unchecked(cfg) ==
    [raised          |-> "none",
     embed_dim       |-> cfg.hidden_size,
     num_heads       |-> cfg.num_attention_heads,
     head_dim        |-> cfg.hidden_size \div cfg.num_attention_heads,
     use_flash_attn  |-> cfg.use_flash_attn /\ has_flash_attn,
     use_relative_pe |-> cfg.use_relative_pe]

WhaleAttention_init(cfg) ==
    LET embed_dim == cfg.hidden_size
        num_heads == cfg.num_attention_heads
        head_dim  == embed_dim \div num_heads
    IN  IF head_dim * num_heads # embed_dim
        THEN [raised |-> "ValueError"]
        ELSE [raised          |-> "none",
              embed_dim       |-> embed_dim,
              num_heads       |-> num_heads,
              head_dim        |-> head_dim,
              use_flash_attn  |-> cfg.use_flash_attn /\ has_flash_attn,
              use_relative_pe |-> cfg.use_relative_pe]

MaskTerm(m) == IF m = None THEN <<"none">> ELSE <<"mask", m.shape, m.axis1>>

\* _naive_attn: the shapes of the score matrices decide whether it raises
naive_attn(a, idx, x, attention_mask, pos_embeds) ==
    LET B == x.shape[1]
        N == x.shape[2]
        C == x.shape[3]
        H == a.num_heads
        D == a.head_dim
        q == <<B, H, N, D>>
        matrix_ac == <<B, H, N, N>>
        p == <<pos_embeds.shape[1], H,
               Numel(pos_embeds.shape) \div (pos_embeds.shape[1] * H * D), D>>
        matrix_bd == MatmulShape(q, <<p[1], p[2], p[4], p[3]>>)
        m == <<attention_mask.shape[1], 1, 1>> \o Tail(attention_mask.shape)
    IN  IF C # a.embed_dim
        THEN [raised |-> "RuntimeError", where |-> "linear_q"]
        ELSE IF a.use_relative_pe /\ pos_embeds = None
        THEN [raised |-> "AttributeError", where |-> "pos_embeds"]
        ELSE Let(IF a.use_relative_pe
                 THEN Let(matrix_bd, LAMBDA bd :
                          IF bd = <<-1>> THEN bd
                          ELSE BroadcastShape(matrix_ac, bd))
                 ELSE matrix_ac,
             LAMBDA scores :
        IF scores = <<-1>>
        THEN [raised |-> "RuntimeError", where |-> "matrix_bd"]
        ELSE Let(IF attention_mask = None THEN scores
                 ELSE BroadcastShape(scores, m),
             LAMBDA filled :
        IF filled = <<-1>>
        THEN [raised |-> "RuntimeError", where |-> "masked_fill"]
        ELSE Let(MatmulShape(filled, q), LAMBDA ctx :
        IF ctx = <<-1>>
        THEN [raised |-> "RuntimeError", where |-> "attn @ v"]
        ELSE IF Numel(ctx) # B * N * C
        THEN [raised |-> "RuntimeError", where |-> "reshape"]
        ELSE [raised |-> "none",
              out |-> Tensor(<<B, N, C>>,
                             <<"attn", idx, x.term, MaskTerm(attention_mask),
                               IF a.use_relative_pe THEN pos_embeds.rows
                                                    ELSE <<>> >>)])))

Attention_forward(a, idx, hidden_states, attention_mask, pos_embeds) ==
    IF ~a.use_flash_attn
    THEN naive_attn(a, idx, hidden_states, attention_mask, pos_embeds)
    ELSE [raised |-> "AttributeError", where |-> "qkv"]

\* ---- WhaleMLP ------------------------------------------------------------

MLP_forward(idx, hidden_states) ==
    Tensor(hidden_states.shape,
           <<"w_2", idx, <<"dropout", <<"act", <<"w_1", idx, hidden_states.term>>>>>>>>)

\* ---- WhaleAudioEncoderLayer ----------------------------------------------

Norm(name, idx, x) == Tensor(x.shape, <<name, idx, x.term>>)
Add(x, y) == Tensor(x.shape, <<"add", x.term, y.term>>)
Dropout(x) == Tensor(x.shape, <<"dropout", x.term>>)
Cat(x, y) ==
    Tensor([x.shape EXCEPT ![Len(x.shape)] = @ + y.shape[Len(y.shape)]],
           <<"cat", x.term, y.term>>)
ConcatLinear(idx, x, embed_dim) ==
    Tensor([x.shape EXCEPT ![Len(x.shape)] = embed_dim],
           <<"concat_linear", idx, x.term>>)

AttnBlock_concat_only(cfg, idx, hidden_states, attn_out, residual) ==
    IF cfg.concat_after
    THEN ConcatLinear(idx, Cat(hidden_states, attn_out), cfg.hidden_size)
    ELSE Add(Dropout(attn_out), residual)

\* the attention sub-block after the attention itself has run
AttnBlock(cfg, idx, hidden_states, attn_out, residual) ==
    IF cfg.concat_after
    THEN Add(ConcatLinear(idx, Cat(hidden_states, attn_out), cfg.hidden_size),
             residual)
    ELSE Add(Dropout(attn_out), residual)

\* the feed-forward sub-block
FeedForwardBlock(cfg, idx, hidden_states) ==
    LET residual == hidden_states
        h4 == IF cfg.normalize_before THEN Norm("norm2", idx, hidden_states)
                                      ELSE hidden_states
        h5 == Add(Dropout(MLP_forward(idx, h4)), residual)
    IN  IF ~cfg.normalize_before THEN Norm("norm2", idx, h5) ELSE h5

EncoderLayer_forward(cfg, a, idx, hidden_states, attention_mask, pos_emb) ==
    LET residual == hidden_states
    IN  IF hidden_states.shape[3] # cfg.hidden_size
        THEN [raised |-> "RuntimeError", where |-> "embed_dim"]
        ELSE Let(IF cfg.normalize_before
                 THEN Norm("norm1", idx, hidden_states)
                 ELSE hidden_states,
             LAMBDA h1 :
        Let(Attention_forward(a, idx, h1, attention_mask, pos_emb),
             LAMBDA att :
        IF att.raised # "none" THEN att
        ELSE Let(AttnBlock(cfg, idx, h1, att.out, residual), LAMBDA h2 :
        Let(IF ~cfg.normalize_before THEN Norm("norm1", idx, h2) ELSE h2,
             LAMBDA h3 :
             [raised     |-> "none",
              out        |-> FeedForwardBlock(cfg, idx, h3),
              attn_in    |-> h1,
              attn_out   |-> att.out,
              after_attn |-> h2]))))

\* ---- WhaleAudioEncoder ---------------------------------------------------

\* the loop over self.layers, from layer idx on
RECURSIVE Encoder_layers(_, _, _, _, _, _, _, _)
Encoder_layers(cfg, a, idx, hidden_states, encoder_states, attention_mask, pos_embeds, output_hidden_states) ==
    IF idx >= cfg.num_hidden_layers
    THEN [raised |-> "none", hidden_states |-> hidden_states,
          encoder_states |-> encoder_states]
    ELSE Let(IF output_hidden_states
             THEN Append(encoder_states, hidden_states)
             ELSE encoder_states,
         LAMBDA states :
         Let(EncoderLayer_forward(cfg, a, idx, hidden_states, attention_mask,
                                  pos_embeds),
         LAMBDA layer_outputs :
             IF layer_outputs.raised # "none" THEN layer_outputs
             ELSE Encoder_layers(cfg, a, idx + 1, layer_outputs.out, states,
                                 attention_mask, pos_embeds,
                                 output_hidden_states)))

Encoder_final_capture_first(cfg, hidden_states, encoder_states, output_hidden_states) ==
    [hidden_states  |-> IF cfg.normalize_before
                        THEN Tensor(hidden_states.shape,
                                    <<"layer_norm", hidden_states.term>>)
                        ELSE hidden_states,
     encoder_states |-> IF output_hidden_states
                        THEN Append(encoder_states, hidden_states)
                        ELSE encoder_states]

\* the final normalization and the last captured state
Encoder_final(cfg, hidden_states, encoder_states, output_hidden_states) ==
    LET hs == IF cfg.normalize_before
              THEN Tensor(hidden_states.shape, <<"layer_norm", hidden_states.term>>)
              ELSE hidden_states
    IN  [hidden_states  |-> hs,
         encoder_states |-> IF output_hidden_states
                            THEN Append(encoder_states, hs)
                            ELSE encoder_states]

Encoder_forward(cfg, a, inputs_embeds, attention_mask, pos_embeds, output_hidden_states, return_dict) ==
    LET ohs == IF output_hidden_states # None THEN output_hidden_states.v
                                              ELSE cfg.output_hidden_states
        rd  == IF return_dict # None THEN return_dict.v ELSE cfg.use_return_dict
    IN  Let(Encoder_layers(cfg, a, 0, inputs_embeds, <<>>, attention_mask,
                           pos_embeds, ohs),
        LAMBDA r :
        IF r.raised # "none" THEN r
        ELSE Let(Encoder_final(cfg, r.hidden_states, r.encoder_states, ohs),
        LAMBDA f :
        IF ~rd
        THEN [raised |-> "none", kind |-> "tuple",
              items  |-> IF ohs THEN <<f.hidden_states, f.encoder_states>>
                                ELSE <<f.hidden_states>>]
        ELSE [raised |-> "none", kind |-> "BaseModelOutput",
              last_hidden_state |-> f.hidden_states,
              hidden_states     |-> IF ohs THEN f.encoder_states ELSE None,
              attentions        |-> None]))

\* ---- WhaleAudioModel -----------------------------------------------------

Model_not_exactly_one(input_features, pixel_embeds) ==
    (input_features = None) = (pixel_embeds = None)

\* the guard of the first raise of forward
Model_missing_input(input_features, pixel_embeds) ==
    input_features = None /\ pixel_embeds = None

Model_rank_at_least_3(input_features) == Len(input_features.shape) >= 3

\* the rank test on the raw features
Model_rank_ok(input_features) == Len(input_features.shape) = 3

\* last_hidden_state[:, 0, :]
Pooled(last_hidden_state) ==
    Tensor(<<last_hidden_state.shape[1], last_hidden_state.shape[3]>>,
           <<"select", 1, 0, last_hidden_state.term>>)

\* the statements after the encoder call
Model_outputs(encoder_outputs, rd, calls) ==
    IF encoder_outputs.kind = "tuple"
    THEN [raised |-> "AttributeError", where |-> "last_hidden_state",
          calls |-> calls]
    ELSE LET last_hidden_state == encoder_outputs.last_hidden_state
         IN  IF last_hidden_state.shape[2] = 0
             THEN [raised |-> "IndexError", where |-> "pooled_output",
                   calls |-> calls]
             ELSE IF ~rd
             THEN [raised |-> "none", kind |-> "tuple", calls |-> calls,
                   items  |-> <<last_hidden_state, Pooled(last_hidden_state)>>]
             ELSE [raised |-> "none", kind |-> "BaseModelOutputWithPooling",
                   calls  |-> calls,
                   last_hidden_state |-> last_hidden_state,
                   pooler_output     |-> Pooled(last_hidden_state),
                   hidden_states     |-> encoder_outputs.hidden_states,
                   attentions        |-> encoder_outputs.attentions]

\* the encoder call and what follows it; pos_embeds is Unbound when the
\* branch taken never assigned it
Model_encode(cfg, a, hidden_states, attention_mask, pos_embeds, ohs, rd, calls) ==
    IF pos_embeds = Unbound
    THEN [raised |-> "UnboundLocalError", where |-> "pos_embeds",
          calls |-> calls, inputs_embeds |-> hidden_states]
    ELSE Let(Encoder_forward(cfg, a, hidden_states, attention_mask, pos_embeds,
                             Some(ohs), Some(rd)),
         LAMBDA enc :
         IF enc.raised # "none"
         THEN [raised |-> enc.raised, where |-> enc.where,
               calls |-> Append(calls, "encoder")]
         ELSE Model_outputs(enc, rd, Append(calls, "encoder")))

Model_forward(cfg, a, input_features, attention_mask, output_hidden_states, return_dict, pixel_embeds) ==
    LET ohs == IF output_hidden_states # None THEN output_hidden_states.v
                                              ELSE cfg.output_hidden_states
        rd  == IF return_dict # None THEN return_dict.v ELSE cfg.use_return_dict
    IN  IF Model_missing_input(input_features, pixel_embeds)
        THEN [raised |-> "ValueError", where |-> "specify", calls |-> <<>>]
        ELSE IF pixel_embeds # None
        THEN Model_encode(cfg, a, pixel_embeds, attention_mask, Unbound,
                          ohs, rd, <<>>)
        ELSE IF ~Model_rank_ok(input_features)
        THEN [raised |-> "ValueError", where |-> "size", calls |-> <<>>]
        ELSE Let(Subsampling_forward(cfg, input_features, attention_mask),
             LAMBDA sub :
        IF sub.raised # "none"
        THEN [raised |-> sub.raised, where |-> sub.where,
              calls |-> <<"subsampling">>]
        ELSE Let(Embeddings_forward(cfg, sub.x), LAMBDA emb :
        IF emb.raised # "none"
        THEN [raised |-> emb.raised, where |-> "embeddings",
              calls |-> <<"subsampling", "embeddings">>]
        ELSE Model_encode(cfg, a, emb.hidden_states, sub.mask, emb.pos_embeds,
                          ohs, rd, <<"subsampling", "embeddings">>)))

\* ---- the configurations and the inputs of the calls ----------------------

InputDims == {7, MaxFeat}

Configs ==
    [hidden_size             : 1..MaxHidden,
     num_attention_heads     : 1..MaxHeads,
     max_position_embeddings : 1..MaxLen,
     num_hidden_layers       : 0..MaxLayers,
     input_dim               : InputDims,
     num_channels            : {1},
     normalize_before        : BOOLEAN,
     concat_after            : BOOLEAN,
     use_relative_pe         : BOOLEAN,
     use_flash_attn          : {FALSE},
     output_hidden_states    : {FALSE},
     use_return_dict         : {TRUE}]

OptBool == {None, Some(TRUE), Some(FALSE)}

\* raw features of every rank the model may be handed
Features(times, feats) ==
    {Tensor(<<b, t, f>>, In("input_features")) :
        <<b, t, f>> \in (1..MaxBatch) \X times \X feats}
OddRankFeatures ==
    {Tensor(<<1, 7>>, In("input_features")),
     Tensor(<<1, 1, 7, 7>>, In("input_features"))}

\* the masks a caller may pass along with features of shape (B, T, F)
Masks(x) ==
    IF Len(x.shape) # 3 THEN {None}
    ELSE {None, Mask(<<x.shape[1], x.shape[2]>>),
          Mask(<<x.shape[1], 1, x.shape[2]>>)}

Hidden(cfg, name) ==
    {Tensor(<<b, n, cfg.hidden_size>>, In(name)) :
        <<b, n>> \in (1..MaxBatch) \X (1..MaxSeq)}

\* ---- the state machine ---------------------------------------------------

Init ==
    /\ config \in Configs
    /\ attn = WhaleAttention_init(config)
    /\ call = [op |-> "WhaleAttention.__init__"]
    /\ ret = attn

\* the modules keep no state between calls (forward is a function of the
\* configuration and the arguments), so a behaviour is the construction
\* followed by one call
Constructed == call.op = "WhaleAttention.__init__"

CallPositionalForward ==
    /\ Constructed
    /\ \E x \in Hidden(config, "x"), offset \in 0..MaxOffset :
        /\ call' = [op |-> "WhalePositionalEncoding.forward",
                    x |-> x, offset |-> offset]
        /\ ret' = PositionalEncoding_forward(config, x, offset)
        /\ UNCHANGED <<config, attn>>

CallPositionEncoding ==
    /\ Constructed
    /\ \E offset \in 0..MaxOffset, size \in 1..MaxSeq :
        /\ call' = [op |-> "WhalePositionalEncoding.position_encoding",
                    offset |-> offset, size |-> size]
        /\ ret' = position_encoding(config, offset, size)
        /\ UNCHANGED <<config, attn>>

CallRelPositionalForward ==
    /\ Constructed
    /\ \E x \in Hidden(config, "x"), offset \in 0..MaxOffset :
        /\ call' = [op |-> "RelPositionalEncoding.forward",
                    x |-> x, offset |-> offset]
        /\ ret' = RelPositionalEncoding_forward(config, x, offset)
        /\ UNCHANGED <<config, attn>>

CallEmbeddingsForward ==
    /\ Constructed
    /\ \E x \in Hidden(config, "input_features") :
        /\ call' = [op |-> "WhaleAudioEmbeddings.forward", input_features |-> x]
        /\ ret' = Embeddings_forward(config, x)
        /\ UNCHANGED <<config, attn>>

CallSubsamplingForward ==
    /\ Constructed
    /\ \E x \in Features(MinTime..MaxTime, MinFeat..MaxFeat) :
      \E x_mask \in Masks(x) :
        /\ call' = [op |-> "WhaleConv2dSubsampling4.forward",
                    x |-> x, x_mask |-> x_mask]
        /\ ret' = Subsampling_forward(config, x, x_mask)
        /\ UNCHANGED <<config, attn>>

CallEncoderLayerForward ==
    /\ Constructed
    /\ attn.raised = "none"
    /\ \E x \in Hidden(config, "hidden_states") :
         \E m \in {None, Mask(<<x.shape[1], x.shape[2]>>)},
            pos \in {None, PeSlice(config, 0, x.shape[2])} :
            /\ call' = [op |-> "WhaleAudioEncoderLayer.forward",
                        hidden_states |-> x, attention_mask |-> m,
                        pos_emb |-> pos]
            /\ ret' = EncoderLayer_forward(config, attn, 0, x, m, pos)
    /\ UNCHANGED <<config, attn>>

CallEncoderForward ==
    /\ Constructed
    /\ attn.raised = "none" \/ config.num_hidden_layers = 0
    /\ \E x \in Hidden(config, "inputs_embeds"), ohs \in OptBool, rd \in OptBool :
         \E m \in {None, Mask(<<x.shape[1], x.shape[2]>>)},
            pos \in {None, PeSlice(config, 0, x.shape[2])} :
            /\ call' = [op |-> "WhaleAudioEncoder.forward",
                        inputs_embeds |-> x, attention_mask |-> m,
                        pos_embeds |-> pos, output_hidden_states |-> ohs,
                        return_dict |-> rd]
            /\ ret' = Encoder_forward(config, attn, x, m, pos, ohs, rd)
    /\ UNCHANGED <<config, attn>>

CallModelForward ==
    /\ Constructed
    /\ attn.raised = "none" \/ config.num_hidden_layers = 0
    /\ \E x \in {None} \cup OddRankFeatures
                 \cup Features(ModelTimes, {config.input_dim}),
          ohs \in OptBool, rd \in OptBool,
          pe \in {None} \cup {e \in Hidden(config, "pixel_embeds") :
                                   e.shape[2] = 1} :
         \E m \in IF x = None THEN {None} ELSE Masks(x) :
            /\ call' = [op |-> "WhaleAudioModel.forward",
                        input_features |-> x, attention_mask |-> m,
                        output_hidden_states |-> ohs, return_dict |-> rd,
                        pixel_embeds |-> pe]
            /\ ret' = Model_forward(config, attn, x, m, ohs, rd, pe)
    /\ UNCHANGED <<config, attn>>

Next ==
    \/ CallPositionalForward
    \/ CallPositionEncoding
    \/ CallRelPositionalForward
    \/ CallEmbeddingsForward
    \/ CallSubsamplingForward
    \/ CallEncoderLayerForward
    \/ CallEncoderForward
    \/ CallModelForward

Spec == Init /\ [][Next]_vars

\* the subsampling module alone, constructed for every input_dim up to MaxFeat
SubsamplingConfigs ==
    [hidden_size             : 1..MaxHidden,
     num_attention_heads     : {1},
     max_position_embeddings : {MaxLen},
     num_hidden_layers       : {0},
     input_dim               : (MinFeat + 1)..MaxFeat,
     num_channels            : {1},
     normalize_before        : {FALSE},
     concat_after            : {FALSE},
     use_relative_pe         : {FALSE},
     use_flash_attn          : {FALSE},
     output_hidden_states    : {FALSE},
     use_return_dict         : {TRUE}]

InitSubsampling ==
    /\ config \in SubsamplingConfigs
    /\ attn = WhaleAttention_init(config)
    /\ call = [op |-> "WhaleAttention.__init__"]
    /\ ret = attn

NextSubsampling == CallSubsamplingForward

SpecSubsampling == InitSubsampling /\ [][NextSubsampling]_vars

\* ---- the claims ----------------------------------------------------------

Range(s) == {s[i] : i \in DOMAIN s}

IsModelForward == call.op = "WhaleAudioModel.forward"
IsSubsampling == call.op = "WhaleConv2dSubsampling4.forward"
IsEncoderLayer == call.op = "WhaleAudioEncoderLayer.forward"
IsEncoder == call.op = "WhaleAudioEncoder.forward"

\* C1: constructing WhaleAttention raises ValueError exactly when hidden_size
\* is not a multiple of num_attention_heads, and every attention module that
\* was constructed satisfies head_dim * num_heads = embed_dim.
C1_ConstructionChecksDivisibility ==
    /\ attn.raised \in {"none", "ValueError"}
    /\ (attn.raised = "ValueError")
          <=> (config.hidden_size % config.num_attention_heads # 0)
    /\ attn.raised = "none" => attn.head_dim * attn.num_heads = attn.embed_dim

C1_Witness ==
    /\ config.hidden_size = 3
    /\ config.num_attention_heads = 2
    /\ attn.raised = "ValueError"

\* C2: without pixel_embeds, forward raises ValueError when input_features is
\* None or not of rank 3, and no submodule has been invoked by then.
C2_MissingOrMalformedFeaturesRejected ==
    (/\ IsModelForward
     /\ call.pixel_embeds = None
     /\ \/ call.input_features = None
        \/ Len(call.input_features.shape) # 3)
    => /\ ret.raised = "ValueError"
       /\ ret.calls = <<>>

C2_Witness ==
    /\ IsModelForward
    /\ call.pixel_embeds = None
    /\ call.input_features # None
    /\ Len(call.input_features.shape) = 4
    /\ ret.raised = "ValueError"
    /\ ret.calls = <<>>

BothSupplied ==
    /\ IsModelForward
    /\ call.input_features # None
    /\ call.pixel_embeds # None

\* C3 as stated: a call that supplies both input_features and pixel_embeds is
\* rejected with a ValueError instead of running the encoder.
C3_BothSuppliedRejected ==
    BothSupplied => ret.raised = "ValueError" /\ "encoder" \notin Range(ret.calls)

\* C3 as amended: forward only checks that at least one of input_features and
\* pixel_embeds is supplied; a call supplying both raises no ValueError, the
\* pixel_embeds take precedence and the raw features are ignored (neither the
\* subsampling nor the embeddings module is invoked).
C3_BothSuppliedNotRejected ==
    BothSupplied =>
        /\ ret.raised # "ValueError"
        /\ "subsampling" \notin Range(ret.calls)
        /\ "embeddings" \notin Range(ret.calls)

C3_Witness ==
    /\ BothSupplied
    /\ Len(call.input_features.shape) = 3
    /\ ret.raised # "ValueError"
    /\ ret.calls = <<>>

\* C4: a call that supplies only pixel_embeds hands them to the encoder and
\* completes with a last hidden state and a pooled output.
C4_PixelEmbedsPathCompletes ==
    (/\ IsModelForward
     /\ call.input_features = None
     /\ call.pixel_embeds # None)
    => /\ ret.raised = "none"
       /\ "encoder" \in Range(ret.calls)

\* C5: every positional-encoding entry point raises when
\* offset + length >= max_len and so never returns a slice shorter than the
\* requested length.
C5_PositionalBoundsEnforced ==
    /\ call.op \in {"WhalePositionalEncoding.forward",
                    "RelPositionalEncoding.forward"}
       => /\ call.offset + call.x.shape[2] >= config.max_position_embeddings
             => ret.raised = "AssertionError"
          /\ ret.raised = "none" => Len(ret.pos_emb.rows) = call.x.shape[2]
    /\ call.op = "WhalePositionalEncoding.position_encoding"
       => /\ call.offset + call.size >= config.max_position_embeddings
             => ret.raised = "AssertionError"
          /\ ret.raised = "none" => Len(ret.pos_emb.rows) = call.size
    /\ call.op = "WhaleAudioEmbeddings.forward"
       => /\ call.input_features.shape[2] >= config.max_position_embeddings
             => ret.raised = "AssertionError"
          /\ ret.raised = "none"
             => Len(ret.pos_embeds.rows) = call.input_features.shape[2]

C7_PooledOutputReturned ==
    (/\ IsModelForward
     /\ call.pixel_embeds = None
     /\ call.input_features # None
     /\ Len(call.input_features.shape) = 3
     /\ call.input_features.shape[2] >= 7
     /\ call.input_features.shape[3] = config.input_dim
     /\ call.attention_mask # None)
    => /\ ret.raised = "none"
       /\ (call.return_dict = Some(FALSE)) <=> (ret.kind = "tuple")
       /\ ret.kind = "tuple" => ret.items[2] = Pooled(ret.items[1])
       /\ ret.kind # "tuple" => ret.pooler_output = Pooled(ret.last_hidden_state)

\* C8: given features (B, T, F) and a mask (B, 1, T), the subsampling returns
\* a mask of shape (B, 1, T') with T' the time length of the returned features.
C8_MaskFollowsFeatures ==
    (/\ IsSubsampling
     /\ call.x_mask # None
     /\ Len(call.x_mask.shape) = 3
     /\ ret.raised = "none")
    => ret.mask.shape = <<call.x.shape[1], 1, ret.x.shape[2]>>

LayerInput == call.hidden_states.term

\* C9 as stated: with concat_after the attention output is concatenated with
\* the residual (the un-normalized layer input) and projected by
\* concat_linear, and no residual is added.
C9_ConcatReplacesResidual ==
    (IsEncoderLayer /\ config.concat_after /\ ret.raised = "none")
    => ret.after_attn.term =
          <<"concat_linear", 0, <<"cat", LayerInput, ret.attn_out.term>>>>

\* C9 as amended: with concat_after the attention output is concatenated,
\* after the attention's own input (the layer input, normalized by norm1 when
\* normalize_before is set), along the feature axis and projected back to
\* embed_dim by concat_linear, and the residual (the un-normalized layer
\* input) is still added to the projection.
C9_ConcatThenResidual ==
    (IsEncoderLayer /\ config.concat_after /\ ret.raised = "none")
    => /\ ret.attn_in.term = IF config.normalize_before
                             THEN <<"norm1", 0, LayerInput>>
                             ELSE LayerInput
       /\ ret.attn_out.term[1] = "attn"
       /\ ret.attn_out.term[3] = ret.attn_in.term
       /\ ret.after_attn.term =
             <<"add",
               <<"concat_linear", 0,
                 <<"cat", ret.attn_in.term, ret.attn_out.term>>>>,
               LayerInput>>
       /\ ret.after_attn.shape = call.hidden_states.shape

C9_Witness ==
    /\ IsEncoderLayer
    /\ config.concat_after
    /\ config.normalize_before
    /\ ret.raised = "none"
    /\ ret.after_attn.term[1] = "add"

EncoderCaptures ==
    /\ IsEncoder
    /\ ret.raised = "none"
    /\ IF call.output_hidden_states # None THEN call.output_hidden_states.v
                                           ELSE config.output_hidden_states

CapturedStates == IF ret.kind = "tuple" THEN ret.items[2] ELSE ret.hidden_states
LastHiddenState == IF ret.kind = "tuple" THEN ret.items[1]
                                         ELSE ret.last_hidden_state
LayerOutput(i, x) ==
    EncoderLayer_forward(config, attn, i, x, call.attention_mask,
                         call.pos_embeds).out
FinalNorm(x) == IF config.normalize_before
                THEN Tensor(x.shape, <<"layer_norm", x.term>>)
                ELSE x

\* C10: with output_hidden_states the encoder over N layers returns N + 1
\* captured states: entry i < N is the input of layer i (entry 0 being
\* inputs_embeds) and the last entry is the returned last hidden state, taken
\* after the final normalization, which is applied exactly when
\* normalize_before is set.
C10_CapturedStates ==
    EncoderCaptures =>
        LET N == config.num_hidden_layers
            states == CapturedStates
        IN  /\ Len(states) = N + 1
            /\ N >= 1 => states[1] = call.inputs_embeds
            /\ \A i \in 1..(N - 1) : states[i + 1] = LayerOutput(i - 1, states[i])
            /\ states[N + 1] = LastHiddenState
            /\ LastHiddenState =
                  FinalNorm(IF N = 0 THEN call.inputs_embeds
                                     ELSE LayerOutput(N - 1, states[N]))

C10_Witness ==
    /\ EncoderCaptures
    /\ config.num_hidden_layers = 2
    /\ config.normalize_before
    /\ Len(CapturedStates) = 3
    /\ LastHiddenState.term[1] = "layer_norm"

TimeAxisMask ==
    /\ IsSubsampling
    /\ call.x_mask # None
    /\ Len(call.x_mask.shape) = 2
    /\ call.x_mask.shape[2] = call.x.shape[2]
    /\ ret.raised = "none"

MatchingFeatures ==
    /\ IsSubsampling
    /\ Len(call.x.shape) = 3
    /\ call.x.shape[3] = config.input_dim
    /\ config.input_dim >= 7

\* C12: for every feature dimension F = config.input_dim >= 7 the flattened
\* width c * f of the convolution output (c = hidden_size, f the frequency
\* size after the two convolutions) equals the in-features
\* hidden_size * (((F - 1) // 2 - 1) // 2) of the output projection, so the
\* projection never fails on a shape mismatch.
C12_ProjectionWidthMatches ==
    MatchingFeatures =>
        LET F == call.x.shape[3]
            c == config.hidden_size
            f == ConvOut(ConvOut(F))
        IN  /\ f >= 1
            /\ c * f = c * (((F - 1) \div 2 - 1) \div 2)
            /\ c * f = Subsampling_intermediate_size(config)
            /\ ret.raised = "RuntimeError" => ret.where # "out"
            /\ call.x.shape[2] >= 7 => ret.raised # "RuntimeError"

C12_Witness ==
    /\ MatchingFeatures
    /\ config.input_dim = 11
    /\ config.hidden_size = 3
    /\ ret.raised = "none"
    /\ Subsampling_intermediate_size(config) = 6

====
